---- MODULE Spec2Model ----
(***************************************************************************)
(* Opportuna (src/main.py): a poll loop that fetches internship listings   *)
(* from two JSON feeds, derives a fingerprint "company::title::location"   *)
(* for each, and for every fingerprint absent from the SQLite table `seen` *)
(* sends an email, posts the listing to Notion and records the fingerprint.*)
(*                                                                         *)
(* Values.  A JSON scalar is a sequence of one-character strings headed by *)
(* a type tag: <<"none">> (missing key or null: dict.get returns None for  *)
(* both), <<"str", c1, ..., cn>> and <<"int", d1, ..., dn>>.  A value that  *)
(* may be a list (locations, terms) is [isList, items]: the list of its    *)
(* scalars, or the single scalar it is when it is no list.                 *)
(***************************************************************************)
EXTENDS Integers, Sequences, FiniteSets, TLC

VARIABLES
    pc,          \* position of the process in the __main__ loop
    listings,    \* check_for_new_jobs: the list returned by fetch_listings
    idx,         \* check_for_new_jobs: position of `l` in `for l in listings`
    seen,        \* rows of table seen that are committed to seen.db
    txn,         \* rows inserted on `conn` and not yet committed
    notified,    \* fingerprints for which send_email has returned
    archived,    \* fingerprints for which add_to_notion has then returned
    failedPrev,  \* raw listings whose send_email raised in an earlier cycle
    log,         \* console lines of the current cycle, as <<position, event>>
    existed,     \* seen.db existed when the running process connected to it
    responses,   \* fetch_listings on its own: what requests.get meets per url
    listing,     \* get_unique_id: its argument
    inserted,    \* the id of the last INSERT statement run on its own
    result       \* what the call or statement run on its own returned or raised

vars == <<pc, listings, idx, seen, txn, notified, archived, failedPrev, log,
          existed, responses, listing, inserted, result>>

loopVars == <<pc, listings, idx, seen, txn, notified, archived, failedPrev, log,
              existed, responses>>

idVars == <<listing, inserted, result>>

\* what only a start of the process and a call of fetch_listings on its own set
envVars == <<existed, responses>>

----------------------------------------------------------------------------
(* Bounds of the model *)

\* longest JSON array one source returns in the poll-loop specification
MaxFeedLen == 1

\* longest company_name and title in the get_unique_id specification
MaxStrLen == 2

\* longest locations list in the get_unique_id specification
MaxLocs == 2

\* longest JSON array one source holds in the fetch_listings specification
MaxBodyLen == 2

\* longest terms list in the specification of the term
MaxTerms == 2

----------------------------------------------------------------------------
(* Python values *)

None == <<"none">>

\* no value yet: the call has not returned
Unset == <<"unset">>

Str(chars) == <<"str">> \o chars

Num(digits) == <<"int">> \o digits

Tag(v) == Head(v)

\* bool(v) of a scalar: None, "" and 0 are falsy
Truthy(v) ==
    CASE Tag(v) = "none" -> FALSE
      [] Tag(v) = "str" -> Len(v) > 1
      [] Tag(v) = "int" -> Tail(v) # <<"0">>

\* the characters an f-string writes for {v}
Format(v) ==
    IF Tag(v) = "none" THEN <<"N", "o", "n", "e">> ELSE Tail(v)

List(items) == [isList |-> TRUE, items |-> items]

NotList(v) == [isList |-> FALSE, items |-> <<v>>]

\* bool(x) of a value that may be a list: the empty list is falsy
TruthyL(x) == IF x.isList THEN x.items # <<>> ELSE Truthy(x.items[1])

----------------------------------------------------------------------------
(* get_unique_id *)

Sep == <<":", ":">>

NA == Str(<<"N", "/", "A">>)

\* the validation without its test of title
MissingRequired_NoTitleTest(l) ==
    \/ ~Truthy(l.company_name)
    \/ ~TruthyL(l.locations)

\* `not company or not title or not locations`
MissingRequired(l) ==
    \/ ~Truthy(l.company_name)
    \/ ~Truthy(l.title)
    \/ ~TruthyL(l.locations)

\* `locations[0] if isinstance(locations, list) and locations else "N/A"`
IdentityLocation(l) ==
    IF l.locations.isList /\ l.locations.items # <<>>
    THEN l.locations.items[1]
    ELSE NA

\* sep.join(items) of a list of strings
RECURSIVE Join(_, _)
Join(sep, items) ==
    IF items = <<>> THEN <<>>
    ELSE IF Len(items) = 1 THEN Tail(items[1])
    ELSE Tail(items[1]) \o sep \o Join(sep, Tail(items))

\* `"; ".join(locations) if locations and isinstance(locations, list) else "N/A"`
location_str(l) ==
    IF TruthyL(l.locations) /\ l.locations.isList
    THEN Str(Join(<<";", " ">>, l.locations.items))
    ELSE NA

\* get_unique_id building the fingerprint from every location
get_unique_id_AllLocations(l) ==
    IF MissingRequired(l)
    THEN None
    ELSE Str(Format(l.company_name) \o Sep \o Format(l.title) \o Sep
             \o Format(location_str(l)))

\* get_unique_id writing company and title with nothing between them
get_unique_id_NoSeparator(l) ==
    IF MissingRequired(l)
    THEN None
    ELSE Str(Format(l.company_name) \o Format(l.title) \o Sep
             \o Format(IdentityLocation(l)))

\* the fingerprint f"{company}::{title}::{location}", or None
get_unique_id(l) ==
    IF MissingRequired(l)
    THEN None
    ELSE Str(Format(l.company_name) \o Sep \o Format(l.title) \o Sep
             \o Format(IdentityLocation(l)))

----------------------------------------------------------------------------
(* The term of a listing, in the email and in the Notion page *)

\* check_for_new_jobs with the branches the other way round: season first
term_str_SeasonFirst(l) ==
    IF Truthy(l.season) THEN l.season
    ELSE IF TruthyL(l.terms) /\ l.terms.isList
    THEN Str(Join(<<",", " ">>, l.terms.items))
    ELSE NA

\* check_for_new_jobs: `if terms and isinstance(terms, list)`, `elif season`
term_str(l) ==
    IF TruthyL(l.terms) /\ l.terms.isList
    THEN Str(Join(<<",", " ">>, l.terms.items))
    ELSE IF Truthy(l.season) THEN l.season
    ELSE NA

\* add_to_notion: the same three branches
notion_term_str(l) ==
    IF TruthyL(l.terms) /\ l.terms.isList
    THEN Str(Join(<<",", " ">>, l.terms.items))
    ELSE IF Truthy(l.season) THEN l.season
    ELSE NA

----------------------------------------------------------------------------
(* The listings the feeds of the poll-loop specification are made of *)

Listing(company, title, locations, date, url) ==
    [company_name |-> company, title |-> title, locations |-> locations,
     terms |-> NotList(None), season |-> None, date_posted |-> date,
     sponsorship |-> None, url |-> url]

\* a complete listing
Acme == Listing(Str(<<"a">>), Str(<<"t">>), List(<<Str(<<"x">>)>>),
                Num(<<"1">>), Str(<<"u">>))

\* the same company, title and first location; another url, a second location
AcmeAgain == Listing(Str(<<"a">>), Str(<<"t">>),
                     List(<<Str(<<"x">>), Str(<<"y">>)>>), None, Str(<<"v">>))

\* another complete listing
Bolt == Listing(Str(<<"b">>), Str(<<"t">>), List(<<Str(<<"x">>)>>),
                None, Str(<<"w">>))

\* an empty company_name
NoCompany == Listing(Str(<<>>), Str(<<"t">>), List(<<Str(<<"x">>)>>), None, None)

\* no title
NoTitle == Listing(Str(<<"c">>), None, List(<<Str(<<"x">>)>>), None, None)

\* an empty locations list
NoLocations == Listing(Str(<<"c">>), Str(<<"t">>), List(<<>>), None, None)

\* date_posted is a string: datetime.fromtimestamp raises TypeError
BadDate == Listing(Str(<<"d">>), Str(<<"t">>), List(<<Str(<<"x">>)>>),
                   Str(<<"1">>), None)

\* what the first repository lists, and what the second lists
Catalogue1 == {Acme, BadDate, NoCompany, NoTitle}

Catalogue2 == {AcmeAgain, Bolt, NoLocations}

Catalogue == Catalogue1 \cup Catalogue2

\* the sequences over S of length at most n
RECURSIVE SeqsUpTo(_, _)
SeqsUpTo(S, n) ==
    IF n = 0 THEN {<<>>}
    ELSE LET shorter == SeqsUpTo(S, n - 1)
         IN  shorter \cup {Append(q, x) : q \in shorter, x \in S}

Range(q) == {q[i] : i \in 1..Len(q)}

----------------------------------------------------------------------------
(* fetch_listings *)

JSON_URLS == 1..2

\* the JSON arrays the repository behind url can hold
Feeds(url) ==
    SeqsUpTo(IF url = 1 THEN Catalogue1 ELSE Catalogue2, MaxFeedLen)

\* what requests.get and raise_for_status do for url
Responses(url) ==
    {[status |-> "ok", body |-> f] : f \in Feeds(url)}
        \cup {[status |-> s, body |-> <<>>] : s \in {"http_error", "conn_error"}}

\* results after the urls 1..n: a RequestException skips the url
RECURSIVE Extend(_, _)
Extend(resps, n) ==
    IF n = 0 THEN <<>>
    ELSE IF resps[n].status = "ok"
         THEN Extend(resps, n - 1) \o resps[n].body
         ELSE Extend(resps, n - 1)

\* `return results` in place of `continue`: the first failure ends the loop
fetch_listings_ReturnsAtFailure(resps) ==
    LET failed == {i \in JSON_URLS : resps[i].status # "ok"}
    IN  IF failed = {} THEN Extend(resps, Cardinality(JSON_URLS))
        ELSE Extend(resps, (CHOOSE i \in failed : \A j \in failed : i <= j) - 1)

fetch_listings(resps) == Extend(resps, Cardinality(JSON_URLS))

----------------------------------------------------------------------------
(* check_for_new_jobs, one listing at a time *)

\* the listing `l` of the running iteration and its fingerprint `uid`
Current == listings[idx]

CurrentUid == get_unique_id(Current)

\* the loop without its lookup: every listing is taken for new
Selected_Never(uid) == FALSE

\* the lookup finding only the rows that are not committed yet
Selected_PendingOnly(uid) == uid \in txn

\* `SELECT 1 FROM seen WHERE id=?` on conn: committed and pending rows
Selected(uid) == uid \in seen \cup txn

\* `INSERT INTO seen(id) VALUES (?)`: id is the primary key, and a row that
\* exists makes the statement raise sqlite3.IntegrityError
InsertRaises(uid) == Selected(uid)

\* building the email's text raises TypeError: "; ".join over a list with a
\* non-string element, datetime.fromtimestamp of a truthy non-number
BodyRaises(l) ==
    \/ /\ l.locations.isList
       /\ \E i \in 1..Len(l.locations.items) : Tag(l.locations.items[i]) # "str"
    \/ Truthy(l.date_posted) /\ Tag(l.date_posted) # "int"
    \/ /\ l.terms.isList
       /\ \E i \in 1..Len(l.terms.items) : Tag(l.terms.items[i]) # "str"

Logged(event) == Append(log, <<idx, event>>)

\* the listings whose send_email raised in the running cycle
FailedNow == {listings[e[1]] : e \in {d \in Range(log) : d[2] = "email_err"}}

\* listings = fetch_listings(), at the start of a cycle
Fetch ==
    /\ pc = "fetch"
    /\ \E r1 \in Responses(1), r2 \in Responses(2) :
           listings' = fetch_listings(<<r1, r2>>)
    /\ idx' = 1
    /\ pc' = "loop"
    /\ UNCHANGED <<seen, txn, notified, archived, failedPrev, log, idVars, envVars>>

\* fetch_listings raises what it does not catch (results.extend of a JSON
\* value that is no array raises TypeError): the handler of the main loop
\* prints it and the loop sleeps
FetchRaises ==
    /\ pc = "fetch"
    /\ pc' = "sleep"
    /\ UNCHANGED <<listings, idx, seen, txn, notified, archived, failedPrev, log,
                   idVars, envVars>>

\* the main loop without `except Exception`: the TypeError of the text ends
\* the process with a traceback
Examine_Uncaught ==
    /\ pc = "loop"
    /\ idx <= Len(listings)
    /\ IF CurrentUid = None
       THEN /\ log' = Logged("invalid")
            /\ idx' = idx + 1
            /\ pc' = "loop"
       ELSE IF Selected(CurrentUid)
       THEN /\ log' = Logged("seen")
            /\ idx' = idx + 1
            /\ pc' = "loop"
       ELSE IF BodyRaises(Current)
       THEN /\ log' = Append(Logged("new"), <<idx, "abort">>)
            /\ idx' = idx
            /\ pc' = "crashed"
       ELSE /\ log' = Logged("new")
            /\ idx' = idx
            /\ pc' = "email"
    /\ UNCHANGED <<listings, seen, txn, notified, archived, failedPrev, idVars,
                   envVars>>

\* one iteration up to the try block: the fingerprint, the lookup, the text
Examine ==
    /\ pc = "loop"
    /\ idx <= Len(listings)
    /\ IF CurrentUid = None
       THEN /\ log' = Logged("invalid")
            /\ idx' = idx + 1
            /\ pc' = "loop"
       ELSE IF Selected(CurrentUid)
       THEN /\ log' = Logged("seen")
            /\ idx' = idx + 1
            /\ pc' = "loop"
       ELSE IF BodyRaises(Current)
       THEN /\ log' = Append(Logged("new"), <<idx, "abort">>)
            /\ idx' = idx
            /\ pc' = "sleep"
       ELSE /\ log' = Logged("new")
            /\ idx' = idx
            /\ pc' = "email"
    /\ UNCHANGED <<listings, seen, txn, notified, archived, failedPrev, idVars, envVars>>

\* send_email returns
SendEmailOk ==
    /\ pc = "email"
    /\ notified' = notified \cup {CurrentUid}
    /\ log' = Logged("email_ok")
    /\ pc' = "notion"
    /\ UNCHANGED <<listings, idx, seen, txn, archived, failedPrev, idVars, envVars>>

\* send_email swallowing its exception: the iteration goes on to Notion
SendEmailRaises_FallsThrough ==
    /\ pc = "email"
    /\ log' = Logged("email_err")
    /\ pc' = "notion"
    /\ UNCHANGED <<listings, idx, seen, txn, notified, archived, failedPrev,
                   idVars, envVars>>

\* the fingerprint recorded although send_email raised
SendEmailRaises_MarksSeen ==
    /\ pc = "email"
    /\ log' = Logged("email_err")
    /\ seen' = seen \cup {CurrentUid}
    /\ idx' = idx + 1
    /\ pc' = "loop"
    /\ UNCHANGED <<listings, txn, notified, archived, failedPrev, idVars, envVars>>

\* send_email called outside a try statement: its exception ends the cycle
SendEmailRaises_EndsCycle ==
    /\ pc = "email"
    /\ log' = Append(Logged("email_err"), <<idx, "abort">>)
    /\ pc' = "sleep"
    /\ UNCHANGED <<listings, idx, seen, txn, notified, archived, failedPrev,
                   idVars, envVars>>

\* send_email raises: `except Exception` ends the iteration
SendEmailRaises ==
    /\ pc = "email"
    /\ log' = Logged("email_err")
    /\ idx' = idx + 1
    /\ pc' = "loop"
    /\ UNCHANGED <<listings, seen, txn, notified, archived, failedPrev, idVars, envVars>>

\* add_to_notion returns, with a 200 or 201 or with any other status
AddToNotionReturns ==
    /\ pc = "notion"
    /\ \E event \in {"notion_ok", "notion_bad"} : log' = Logged(event)
    /\ archived' = archived \cup {CurrentUid}
    /\ pc' = "insert"
    /\ UNCHANGED <<listings, idx, seen, txn, notified, failedPrev, idVars, envVars>>

\* requests.post raises inside add_to_notion, which does not catch it:
\* `except Exception` ends the iteration
AddToNotionRaises ==
    /\ pc = "notion"
    /\ log' = Logged("notion_err")
    /\ idx' = idx + 1
    /\ pc' = "loop"
    /\ UNCHANGED <<listings, seen, txn, notified, archived, failedPrev, idVars, envVars>>

\* cur.execute("INSERT ..."): IntegrityError ends the iteration like any other
\* exception
Insert ==
    /\ pc = "insert"
    /\ IF InsertRaises(CurrentUid)
       THEN /\ log' = Logged("insert_err")
            /\ idx' = idx + 1
            /\ pc' = "loop"
            /\ txn' = txn
       ELSE /\ txn' = txn \cup {CurrentUid}
            /\ pc' = "commit"
            /\ UNCHANGED <<idx, log>>
    /\ UNCHANGED <<listings, seen, notified, archived, failedPrev, idVars, envVars>>

\* conn.commit() left out: the row stays in the open transaction
Commit_Forgets ==
    /\ pc = "commit"
    /\ log' = Logged("marked")
    /\ idx' = idx + 1
    /\ pc' = "loop"
    /\ UNCHANGED <<listings, seen, txn, notified, archived, failedPrev, idVars,
                   envVars>>

\* conn.commit(), the end of the iteration
Commit ==
    /\ pc = "commit"
    /\ seen' = seen \cup txn
    /\ txn' = {}
    /\ log' = Logged("marked")
    /\ idx' = idx + 1
    /\ pc' = "loop"
    /\ UNCHANGED <<listings, notified, archived, failedPrev, idVars, envVars>>

\* the for loop is exhausted: check_for_new_jobs returns
FinishCycle ==
    /\ pc = "loop"
    /\ idx > Len(listings)
    /\ pc' = "sleep"
    /\ UNCHANGED <<listings, idx, seen, txn, notified, archived, failedPrev, log,
                   idVars, envVars>>

----------------------------------------------------------------------------
(* the __main__ loop and the process *)

InCycle == {"fetch", "loop", "email", "notion", "insert", "commit"}

Running == InCycle \cup {"sleep"}

\* the process is over: after conn.close() and the last print, by an uncaught
\* KeyboardInterrupt, or killed
Ended == {"stopped", "interrupted", "killed"}

\* check_for_new_jobs is left: its locals are gone, the console scrolls on
CycleLeft ==
    /\ listings' = <<>>
    /\ idx' = 1
    /\ log' = <<>>
    /\ failedPrev' = failedPrev \cup FailedNow

\* time.sleep returns: the next `while True` iteration
Wake ==
    /\ pc = "sleep"
    /\ pc' = "fetch"
    /\ CycleLeft
    /\ UNCHANGED <<seen, txn, notified, archived, idVars, envVars>>

\* KeyboardInterrupt: inside check_for_new_jobs it reaches the handler, which
\* breaks out of the loop to conn.close() and the last print; what is not
\* committed is dropped.  Inside time.sleep it is outside the try statement:
\* the process ends with a traceback, without conn.close() and the last print.
Interrupt ==
    /\ pc \in Running
    /\ pc' = IF pc \in InCycle THEN "stopped" ELSE "interrupted"
    /\ txn' = {}
    /\ CycleLeft
    /\ UNCHANGED <<seen, notified, archived, idVars, envVars>>

\* the process is killed or the machine stops: seen.db keeps what is committed
Kill ==
    /\ pc \in Running
    /\ pc' = "killed"
    /\ txn' = {}
    /\ CycleLeft
    /\ UNCHANGED <<seen, notified, archived, idVars, envVars>>

\* CREATE TABLE without IF NOT EXISTS on a fresh file: the table starts empty
Restart_Truncates ==
    /\ pc \in Ended
    /\ pc' = "fetch"
    /\ txn' = {}
    /\ seen' = {}
    /\ existed' = TRUE
    /\ UNCHANGED <<listings, idx, notified, archived, failedPrev, log, idVars,
                   responses>>

\* the program is started again: connect, CREATE TABLE IF NOT EXISTS, commit
Restart ==
    /\ pc \in Ended
    /\ pc' = "fetch"
    /\ txn' = {}
    /\ existed' = TRUE
    /\ UNCHANGED <<listings, idx, seen, notified, archived, failedPrev, log,
                   idVars, responses>>

\* the first start: seen.db does not exist and the table is created empty
Init ==
    /\ pc = "fetch"
    /\ listings = <<>>
    /\ idx = 1
    /\ seen = {}
    /\ txn = {}
    /\ notified = {}
    /\ archived = {}
    /\ failedPrev = {}
    /\ log = <<>>
    /\ existed = FALSE
    /\ responses = <<>>
    /\ listing = Acme
    /\ inserted = None
    /\ result = Unset

Next ==
    \/ Fetch
    \/ FetchRaises
    \/ Examine
    \/ SendEmailOk
    \/ SendEmailRaises
    \/ AddToNotionReturns
    \/ AddToNotionRaises
    \/ Insert
    \/ Commit
    \/ FinishCycle
    \/ Wake
    \/ Interrupt
    \/ Kill
    \/ Restart

Spec == Init /\ [][Next]_vars

\* the steps the program takes by itself: a statement that can run does run,
\* and time.sleep returns
Program ==
    \/ Fetch
    \/ FetchRaises
    \/ Examine
    \/ SendEmailOk
    \/ SendEmailRaises
    \/ AddToNotionReturns
    \/ AddToNotionRaises
    \/ Insert
    \/ Commit
    \/ FinishCycle
    \/ Wake

\* the poll loop with a running process making progress
FairSpec == Spec /\ WF_vars(Program)

----------------------------------------------------------------------------
(* get_unique_id on its own: one call on any listing of RawListings *)

IdAlphabet == {"a", ":"}

\* company_name and title: missing, or a string of at most MaxStrLen characters
KeyValues == {None} \cup {Str(q) : q \in SeqsUpTo(IdAlphabet, MaxStrLen)}

\* the elements of a locations list: the empty string, and a string that
\* starts like the separator
LocElems == {Str(<<>>), Str(<<":">>)}

\* locations: missing, a string, or a list of at most MaxLocs elements
LocValues ==
    {NotList(None), NotList(Str(<<"a">>))}
        \cup {List(q) : q \in SeqsUpTo(LocElems, MaxLocs)}

RawListings ==
    {Listing(c, t, loc, None, u) :
        c \in KeyValues, t \in KeyValues, loc \in LocValues,
        u \in {None, Str(<<"u">>)}}

InitId ==
    /\ pc = "fetch"
    /\ listings = <<>>
    /\ idx = 1
    /\ seen = {}
    /\ txn = {}
    /\ notified = {}
    /\ archived = {}
    /\ failedPrev = {}
    /\ log = <<>>
    /\ existed = FALSE
    /\ responses = <<>>
    /\ listing \in RawListings
    /\ inserted = None
    /\ result = Unset

\* uid = get_unique_id(l)
CallGetUniqueId ==
    /\ result = Unset
    /\ result' = get_unique_id(listing)
    /\ UNCHANGED <<listing, inserted, loopVars>>

NextId == CallGetUniqueId

SpecId == InitId /\ [][NextId]_vars

----------------------------------------------------------------------------
(* The statements on table seen on their own: any INSERT, any commit *)

Ok == <<"ok">>

IntegrityError == <<"IntegrityError">>

Committed == <<"committed">>

\* the fingerprints of the catalogue
Fingerprints == {get_unique_id(l) : l \in Catalogue} \ {None}

InitStore ==
    /\ pc = "store"
    /\ listings = <<>>
    /\ idx = 1
    /\ seen = {}
    /\ txn = {}
    /\ notified = {}
    /\ archived = {}
    /\ failedPrev = {}
    /\ log = <<>>
    /\ existed = FALSE
    /\ responses = <<>>
    /\ listing = Acme
    /\ inserted = None
    /\ result = Unset

\* cur.execute("INSERT INTO seen(id) VALUES (?)", (uid,))
ExecuteInsert ==
    /\ pc = "store"
    /\ \E uid \in Fingerprints :
           /\ inserted' = uid
           /\ IF InsertRaises(uid)
              THEN result' = IntegrityError /\ txn' = txn
              ELSE result' = Ok /\ txn' = txn \cup {uid}
    /\ UNCHANGED <<listing, pc, listings, idx, seen, notified, archived,
                   failedPrev, log, envVars>>

\* conn.commit()
ExecuteCommit ==
    /\ pc = "store"
    /\ seen' = seen \cup txn
    /\ txn' = {}
    /\ result' = Committed
    /\ UNCHANGED <<listing, inserted, pc, listings, idx, notified, archived,
                   failedPrev, log, envVars>>

\* the connection is closed and opened again: pending rows are dropped
Reconnect ==
    /\ pc = "store"
    /\ txn' = {}
    /\ result' = Unset
    /\ UNCHANGED <<listing, inserted, pc, listings, idx, seen, notified,
                   archived, failedPrev, log, envVars>>

NextStore == ExecuteInsert \/ ExecuteCommit \/ Reconnect

SpecStore == InitStore /\ [][NextStore]_vars

----------------------------------------------------------------------------
(* fetch_listings on its own: one call on any pair of responses *)

\* what requests.get can meet at url: the repository holds a JSON array, and
\* the request succeeds, ends with a status raise_for_status rejects, or fails
Replies(url) ==
    [status : {"ok", "http_error", "conn_error"},
     body : SeqsUpTo(IF url = 1 THEN Catalogue1 ELSE Catalogue2, MaxBodyLen)]

InitFetch ==
    /\ pc = "call"
    /\ responses \in {<<r1, r2>> : r1 \in Replies(1), r2 \in Replies(2)}
    /\ listings = <<>>
    /\ idx = 1
    /\ seen = {}
    /\ txn = {}
    /\ notified = {}
    /\ archived = {}
    /\ failedPrev = {}
    /\ log = <<>>
    /\ existed = FALSE
    /\ listing = Acme
    /\ inserted = None
    /\ result = Unset

CallFetchListings ==
    /\ pc = "call"
    /\ listings' = fetch_listings(responses)
    /\ pc' = "return"
    /\ UNCHANGED <<idx, seen, txn, notified, archived, failedPrev, log, idVars,
                   envVars>>

NextFetch == CallFetchListings

SpecFetch == InitFetch /\ [][NextFetch]_vars

----------------------------------------------------------------------------
(* The term on its own: one computation on any terms and season *)

TermElems == {Str(<<>>), Str(<<"s">>), Str(<<"f">>)}

\* listing.get('terms', []): missing or null, a string, a list of strings
TermValues ==
    {NotList(None), NotList(Str(<<>>)), NotList(Str(<<"s">>))}
        \cup {List(q) : q \in SeqsUpTo(TermElems, MaxTerms)}

\* listing.get('season'): missing or null, or a string
SeasonValues == {None, Str(<<>>), Str(<<"f">>), Str(<<"w">>)}

TermListings ==
    {[Acme EXCEPT !.terms = t, !.season = s] :
        t \in TermValues, s \in SeasonValues}

InitTerm ==
    /\ pc = "term"
    /\ listings = <<>>
    /\ idx = 1
    /\ seen = {}
    /\ txn = {}
    /\ notified = {}
    /\ archived = {}
    /\ failedPrev = {}
    /\ log = <<>>
    /\ existed = FALSE
    /\ responses = <<>>
    /\ listing \in TermListings
    /\ inserted = None
    /\ result = Unset

\* the term_str of the email's text
EmailTerm ==
    /\ pc = "term"
    /\ result = Unset
    /\ result' = term_str(listing)
    /\ UNCHANGED <<listing, inserted, loopVars>>

\* the term_str of the Notion page
NotionTerm ==
    /\ pc = "term"
    /\ result = Unset
    /\ result' = notion_term_str(listing)
    /\ UNCHANGED <<listing, inserted, loopVars>>

NextTerm == EmailTerm \/ NotionTerm

SpecTerm == InitTerm /\ [][NextTerm]_vars

----------------------------------------------------------------------------
(* Properties of the poll loop, under Spec *)

Uid(p) == get_unique_id(listings[p])

Events == Range(log)

\* send_email was called for the listing at position p of the running cycle
Attempted(p) ==
    \E e \in Events : e[1] = p /\ e[2] \in {"email_ok", "email_err"}

\* the iteration of position p is over
Past(p) == idx > p \/ (idx = p /\ pc = "sleep")

\* C1: every committed fingerprint is one for which send_email returned and
\* add_to_notion was then called and returned.
C1_SeenOnlyAfterNotification == seen \subseteq (notified \cap archived)

\* C1 witness: a fingerprint is committed, and a later process runs
C1_Witness == seen # {} /\ pc = "killed"

\* the cycle has run through its feed: no exception has ended it early
RanThrough == pc = "sleep" /\ \A e \in Events : e[2] # "abort"

\* the loop has come to position p of the running cycle
Reached(p) == \E e \in Events : e[1] = p

\* send_email has just raised and the fingerprint is not committed
FailedIsNotMarked ==
    \A e \in Events :
        (e[2] = "email_err" /\ e = log[Len(log)]) => Uid(e[1]) \notin seen

\* C2 as stated: a listing whose send_email raised is not in the seen-set
\* after that step, and a later cycle that runs through a feed with the same
\* raw listing calls send_email for it again.
C2_FailedIsRetried ==
    /\ FailedIsNotMarked
    /\ RanThrough =>
           \A l \in failedPrev \cap Range(listings) :
               \E p \in 1..Len(listings) : listings[p] = l /\ Attempted(p)

\* C2 amended: a listing whose send_email raised is not in the seen-set after
\* that step, and when the loop of a later cycle reaches the same raw listing
\* it calls send_email for it again, unless the fingerprint has been
\* committed since and the listing is skipped as already seen.
C2_FailedIsRetriedUnlessSeen ==
    /\ FailedIsNotMarked
    /\ \A p \in 1..Len(listings) :
           (listings[p] \in failedPrev /\ Past(p) /\ Reached(p))
               => Attempted(p) \/ <<p, "seen">> \in Events

\* C2 witness: a cycle ends in which send_email was called again for a
\* listing whose send_email raised in an earlier cycle
C2_Witness ==
    /\ pc = "sleep"
    /\ \E p \in 1..Len(listings) : listings[p] \in failedPrev /\ Attempted(p)

\* C3: when send_email has returned and the archival then fails, by an error
\* or by a non-success response, the fingerprint is committed by the end of
\* the listing's iteration.
C3_ArchivalFailureStillMarksSeen ==
    \A e \in Events :
        (e[2] \in {"notion_bad", "notion_err"} /\ Past(e[1]))
            => Uid(e[1]) \in seen

\* the iteration of a committed fingerprint is a skip: nothing but the line
\* "Already seen" and the next position
SkipStep ==
    (pc = "loop" /\ idx <= Len(listings) /\ CurrentUid \in seen /\ pc' \in Running)
        => /\ log' = Logged("seen")
           /\ pc' = "loop"
           /\ idx' = idx + 1
           /\ UNCHANGED <<seen, txn, notified, archived>>

\* C4: once a fingerprint is committed, every later occurrence of a listing
\* with it is skipped: send_email and add_to_notion are not called for it and
\* the seen-set is left as it is.
C4_CommittedIsSkipped ==
    /\ [](pc \in {"email", "notion", "insert", "commit"} => CurrentUid \notin seen)
    /\ [][SkipStep]_vars

\* C4 witness: a listing was skipped as already seen
C4_Witness == \E e \in Events : e[2] = "seen"

\* C5: in one cycle, send_email returns for at most one occurrence of a
\* fingerprint, and add_to_notion is called for at most one.
C5_OncePerCycle ==
    \A d, e \in Events :
        ( /\ d[1] # e[1]
          /\ \/ d[2] = "email_ok" /\ e[2] = "email_ok"
             \/ /\ d[2] \in {"notion_ok", "notion_bad", "notion_err"}
                /\ e[2] \in {"notion_ok", "notion_bad", "notion_err"} )
            => Uid(d[1]) # Uid(e[1])

Falsy(v) == v \in {None, Str(<<>>), Num(<<"0">>)}

\* company_name, title or locations is missing, empty or falsy
LacksRequired(l) ==
    \/ Falsy(l.company_name)
    \/ Falsy(l.title)
    \/ IF l.locations.isList
       THEN l.locations.items = <<>>
       ELSE Falsy(l.locations.items[1])

\* the iteration of a listing that lacks a required field: no fingerprint,
\* nothing but the line "Skipping invalid listing" and the next position
DiscardStep ==
    (pc = "loop" /\ idx <= Len(listings) /\ LacksRequired(Current) /\ pc' \in Running)
        => /\ CurrentUid = None
           /\ log' = Logged("invalid")
           /\ pc' = "loop"
           /\ idx' = idx + 1
           /\ UNCHANGED <<seen, txn, notified, archived>>

\* C8: a listing whose company_name, title or locations is missing, empty or
\* falsy gets no fingerprint and is discarded with no email, no archival
\* request and no change of the seen-set, and the loop goes on to the
\* listings after it.
C8_InvalidIsDiscarded ==
    /\ [](\A e \in Events :
             LacksRequired(listings[e[1]]) => e[2] = "invalid")
    /\ [][DiscardStep]_vars

\* C8 witness: a listing was discarded and a listing after it was notified,
\* archived and committed
C8_Witness ==
    \E d, e \in Events :
        d[2] = "invalid" /\ e[2] = "marked" /\ d[1] < e[1]

\* C11: a fingerprint that is inserted and committed is found by the lookup
\* from then on, and a start of the process on an existing seen.db loads the
\* table intact: the seen-set after the restart is the one committed before.
C11_CommittedIsFoundAcrossRestarts ==
    [][ /\ (pc = "commit" /\ pc' = "loop") =>
               \A uid \in {Uid(idx)} : uid \in seen' /\ Selected(uid)'
        /\ \A uid \in seen : Selected(uid)'
        /\ (pc \in Ended /\ pc' = "fetch") => seen' = seen ]_vars

\* C11 witness: a process started on an existing seen.db finds a listing's
\* fingerprint in the table
C11_Witness == existed /\ seen # {} /\ \E e \in Events : e[2] = "seen"

\* C12: the seen-set only grows, across every step, cycle and restart: no
\* committed fingerprint is removed, and a step adds at most the fingerprint
\* of the listing being processed.
C12_SeenGrowsByCurrentOnly ==
    [][ /\ seen \subseteq seen'
        /\ seen' # seen =>
               /\ pc \in InCycle
               /\ idx \in 1..Len(listings)
               /\ seen' = seen \cup {CurrentUid} ]_vars

\* C12 witness: a process started on an existing seen.db holds two committed
\* fingerprints
C12_Witness == existed /\ Cardinality(seen) >= 2

\* an exception has reached the handler of the main loop in the running cycle
Aborted == \E e \in Events : e[2] = "abort"

\* C14: an exception raised in a poll cycle does not end the process: the
\* handler of the main loop catches it, the cycle is over, the loop sleeps and
\* then starts a further cycle from the fetch.  A running process ends by the
\* interrupt or a kill only, and a cycle starts only when the one before it
\* is over.
C14_ExceptionEndsCycleOnly ==
    /\ [](Aborted => pc = "sleep")
    /\ [][ /\ pc \in Running => pc' \in Running \cup Ended
           /\ (pc = "fetch" /\ pc' \in Running) => pc' \in {"fetch", "loop", "sleep"}
           /\ (pc = "sleep" /\ pc' \in Running) =>
                  \/ pc' = "sleep"
                  \/ pc' = "fetch" /\ listings' = <<>> /\ idx' = 1 /\ log' = <<>>
           /\ (pc # "fetch" /\ pc' = "fetch") => pc \in {"sleep"} \cup Ended ]_vars

\* C14 witness: the text of a listing has raised, the handler has caught it and
\* the loop sleeps until the next cycle
C14_Witness == Aborted /\ pc = "sleep" /\ seen # {}

\* C15: whenever KeyboardInterrupt arrives while the main loop runs, in a poll
\* cycle or in the sleep between two cycles, the process ends in order: the
\* connection is closed and the last line is printed before it exits.
C15_InterruptStopsInOrder ==
    [][(pc \in Running /\ pc' \in {"stopped", "interrupted"})
           => pc' = "stopped"]_vars

\* the listings of the catalogue that pass the validation and whose email
\* text can be built
Sound == {l \in Catalogue : get_unique_id(l) # None /\ ~BodyRaises(l)}

\* the process is never interrupted or killed, every fetch_listings returns,
\* and the feed of every cycle holds listing l
StaysInFeed(l) ==
    /\ [](pc \in Running)
    /\ [](pc \in Running \ {"fetch"} => l \in Range(listings))

\* from some cycle on send_email returns, and so does add_to_notion
DispatchHeals ==
    <>[](\A e \in Events : e[2] \notin {"email_err", "notion_err"})

\* C17: when the process keeps cycling, a listing that passes the validation
\* is in the fetched feed of every cycle, and from some cycle on send_email
\* always returns (and add_to_notion too), the listing's fingerprint is
\* committed in the end, whatever listings come before it in the feed.
C17_ValidListingIsCommittedInTheEnd ==
    \A l \in Sound :
        (StaysInFeed(l) /\ DispatchHeals) => <>(get_unique_id(l) \in seen)

\* send_email has raised for a listing before position p of the running cycle
AfterFailure(p) ==
    \E e \in Events : e[2] = "email_err" /\ e[1] < p

\* add_to_notion was called for position p and returned
Archived(p) ==
    \E e \in Events : e[1] = p /\ e[2] \in {"notion_ok", "notion_bad"}

C19_InsertOnlyAbsent ==
    /\ pc = "insert" => CurrentUid \notin seen \cup txn
    /\ \A e \in Events : e[2] # "insert_err"

\* C19 witness: a fingerprint occurs twice in one cycle; it was inserted and
\* committed at its first occurrence and the loop is past the second
C19_Witness ==
    /\ Len(listings) = 2
    /\ Uid(1) = Uid(2)
    /\ <<1, "marked">> \in Events
    /\ Past(2)

----------------------------------------------------------------------------
(* Properties of the INSERT statement, under SpecStore *)

\* C10: inserting a fingerprint that is already present is a no-op and not an
\* error.
C10_InsertIdempotent ==
    [][(result' \in {Ok, IntegrityError} /\ inserted' \in seen \cup txn)
           => (result' = Ok /\ seen' = seen /\ txn' = txn)]_vars

----------------------------------------------------------------------------
(* Properties of fetch_listings, under SpecFetch *)

\* what the source at url adds to the result: its array when the retrieval
\* succeeded, nothing otherwise
Contribution(url) ==
    IF responses[url].status = "ok" THEN responses[url].body ELSE <<>>

----------------------------------------------------------------------------
(* Properties of get_unique_id, under SpecId *)

Returned == result # Unset

\* the listing passes the validation of get_unique_id
Valid(l) == Truthy(l.company_name) /\ Truthy(l.title) /\ TruthyL(l.locations)

\* a and b have a locations list with the same first element, or neither
\* has a list
SameFirstLocation(a, b) ==
    IF a.locations.isList /\ b.locations.isList
    THEN Head(a.locations.items) = Head(b.locations.items)
    ELSE ~a.locations.isList /\ ~b.locations.isList

HasColon(v) == \E i \in 2..Len(v) : v[i] = ":"

\* C6: two listings that pass validation and agree on company_name, title
\* and the first element of locations get the same fingerprint, whatever
\* their further locations and their url are.
C6_SameKeySameFingerprint ==
    (Returned /\ Valid(listing)) =>
        \A other \in RawListings :
            ( /\ Valid(other)
              /\ other.company_name = listing.company_name
              /\ other.title = listing.title
              /\ SameFirstLocation(listing, other) )
                => get_unique_id(other) = result

\* C6 witness: the call has returned a fingerprint, and another listing with
\* a second location and another url agrees with this one on the three values
C6_Witness ==
    /\ Returned
    /\ Valid(listing)
    /\ \E other \in RawListings :
           /\ Valid(other)
           /\ other.company_name = listing.company_name
           /\ other.title = listing.title
           /\ SameFirstLocation(listing, other)
           /\ other.url # listing.url
           /\ Len(other.locations.items) > Len(listing.locations.items)
           /\ listing.locations.isList

\* C7 as stated: two listings that pass validation get equal fingerprints
\* only if they have the same company, title and identity location.
C7_FingerprintIdentifiesTriple ==
    (Returned /\ Valid(listing)) =>
        \A other \in RawListings :
            (Valid(other) /\ get_unique_id(other) = result)
                => /\ other.company_name = listing.company_name
                   /\ other.title = listing.title
                   /\ IdentityLocation(other) = IdentityLocation(listing)

\* company_name and title are strings without the character ":"
ColonFreeKey(l) ==
    /\ Tag(l.company_name) = "str" /\ ~HasColon(l.company_name)
    /\ Tag(l.title) = "str" /\ ~HasColon(l.title)
    /\ Tag(IdentityLocation(l)) = "str"

\* C7 amended: two listings that pass validation, whose company_name and
\* title are strings without ":" and whose identity location is a string,
\* get equal fingerprints only if they have the same company, title and
\* identity location.
C7_ColonFreeFingerprintIdentifiesTriple ==
    (Returned /\ Valid(listing) /\ ColonFreeKey(listing)) =>
        \A other \in RawListings :
            (Valid(other) /\ ColonFreeKey(other) /\ get_unique_id(other) = result)
                => /\ other.company_name = listing.company_name
                   /\ other.title = listing.title
                   /\ IdentityLocation(other) = IdentityLocation(listing)

\* C7 witness: a fingerprint of a colon-free listing that another listing,
\* with a colon in its location, shares
C7_Witness ==
    /\ Returned
    /\ Valid(listing)
    /\ ColonFreeKey(listing)
    /\ HasColon(IdentityLocation(listing))
    /\ \E other \in RawListings :
           /\ other # listing
           /\ Valid(other)
           /\ ColonFreeKey(other)
           /\ get_unique_id(other) = result

\* C9: when get_unique_id returns a fingerprint, the company, the title and
\* the identity location it is built from are all non-empty.
C9_FingerprintPartsNonEmpty ==
    (Returned /\ result # None) =>
        /\ Truthy(listing.company_name)
        /\ Truthy(listing.title)
        /\ Truthy(IdentityLocation(listing))

----------------------------------------------------------------------------
(* Properties of the term, under SpecTerm *)

\* C16: the term written to the email and to the Notion page is the elements
\* of terms joined with ", " when terms is a non-empty list; otherwise the
\* season when there is one and it is not empty; otherwise "N/A".  terms goes
\* before season.
C16_TermsThenSeasonThenNA ==
    (pc = "term" /\ result # Unset) =>
        IF listing.terms.isList /\ Len(listing.terms.items) > 0
        THEN result = Str(Join(<<",", " ">>, listing.terms.items))
        ELSE IF listing.season \notin {None, Str(<<>>)}
        THEN result = listing.season
        ELSE result = NA

\* C16 witness: a listing with two terms and a season gets the two terms
C16_Witness ==
    /\ pc = "term"
    /\ listing.terms = List(<<Str(<<"s">>), Str(<<"f">>)>>)
    /\ listing.season = Str(<<"w">>)
    /\ result = Str(<<"s", ",", " ", "f">>)

====
